---- MODULE Spec2Model ----
(***************************************************************************)
(* DDPOptimizer (torch/_dynamo/optimizations/distributed.py): the graph    *)
(* bucketing and re-fusion engine.  One DDPOptimizer instance is built,    *)
(* compile_fn is called on a traced graph, and the fused callable it       *)
(* returns may then be invoked.                                            *)
(***************************************************************************)
EXTENDS Integers, Sequences, FiniteSets, TLC

VARIABLES
    pc,                 \* position in __init__ / compile_fn
    bucket_bytes_cap,   \* self.bucket_bytes_cap
    first_bucket_cap,   \* self.first_bucket_cap
    gm,                 \* gm.graph.nodes of the traced graph, in construction order
    idx,                \* position of the reverse scan: the next node visited is gm[idx]
    buckets,            \* the local list `buckets` of compile_fn
    self_buckets,       \* self.buckets, the stashed list
    partition_map,      \* the local dict partition_map: node -> list index
    split_gm,           \* the structure returned by split_module, rewritten by the walk
    walk,               \* number of partition-boundary nodes the interpreter has run
    backend_calls,      \* the calls made to backend_compile_fn, in order
    result,             \* what compile_fn returned
    error,              \* the exception that left __init__ / compile_fn
    dist_initialized,   \* whether torch.distributed has a default process group
    invoked,            \* the wrapper invocations made on the fused callable
    multithreading_enabled, \* the process-wide autograd multithreading flag
    prev_multithreading,    \* the value the guard of the with statement restores
    logged,             \* what pretty_print_buckets logged in this call
    example_inputs,     \* example_inputs of the call: each a real or a fake tensor
    env,                \* the interpreter's environment: the value held for a node
    registered_overlapped_optims,  \* the dict _registered_overlapped_optims
    register_outcome,   \* how the last register_overlapped decorator call ended
    overlapped_for      \* the class _as_overlapped_optim instantiated last

vars == <<pc, bucket_bytes_cap, first_bucket_cap, gm, idx, buckets, self_buckets,
          partition_map, split_gm, walk, backend_calls, result, error,
          dist_initialized, invoked, multithreading_enabled, prev_multithreading,
          logged, example_inputs, env,
          registered_overlapped_optims, register_outcome, overlapped_for>>

\* The state of optimizer_overlap.py.
registry_vars == <<registered_overlapped_optims, register_outcome, overlapped_for>>

\* The state of one DDPOptimizer and of the process it runs in.
ddp_vars == <<pc, bucket_bytes_cap, first_bucket_cap, gm, idx, buckets, self_buckets,
              partition_map, split_gm, walk, backend_calls, result, error,
              dist_initialized, invoked, multithreading_enabled, prev_multithreading,
              logged, example_inputs, env>>

----------------------------------------------------------------------------
(* Bounds and input domains *)

\* The longest graph body (nodes between the placeholder and the output).
MaxBody == 3

\* The longest graph body in the runs that vary the process environment.
MaxEnvBody == 3

\* The longest graph body in the runs on graphs with buffers and with
\* targets that do not exist.
MaxTargetBody == 3

\* The cap values a DDPOptimizer is constructed with.
CapValues == {0, 60, 120}

None == "None"

\* compile_fn has not returned.
NoResult == [kind |-> "none", call |-> 0]

\* pretty_print_buckets has not run.
NoLog == [kind |-> "none", rows |-> << >>]

\* split_module has not run.
NoSplit ==
    [made |-> FALSE, submods |-> << >>, calls |-> << >>, wrappers |-> << >>,
     placeholders |-> << >>, output |-> << >>]

----------------------------------------------------------------------------
(* The traced module: its submodules, attributes and their parameters *)

Param(name, nbytes, requires_grad, ddp_ignored) ==
    [name |-> name, nbytes |-> nbytes, requires_grad |-> requires_grad,
     ddp_ignored |-> ddp_ignored]

\* target.named_parameters() of each submodule gm.get_submodule(target).
NamedParameters(target) ==
    CASE target = "fc1" -> << Param("weight", 100, TRUE, FALSE) >>
      [] target = "fc2" -> << Param("weight", 150, TRUE, FALSE) >>
      [] target = "fc3" -> << Param("weight", 50, TRUE, FALSE) >>
      [] target = "lin" -> << Param("weight", 100, TRUE, FALSE),
                              Param("frozen", 100, FALSE, FALSE),
                              Param("bias", 50, TRUE, FALSE) >>
      [] target = "aux" -> << Param("weight", 100, TRUE, TRUE),
                              Param("bias", 50, FALSE, TRUE) >>
      [] OTHER -> << >>

\* getattr(gm, target) of each attribute a get_attr node reads: the
\* parameter w, the buffer buf, the buffer ibuf that DDP was told to ignore.
Attribute(target) ==
    CASE target = "w" -> Param("w", 50, TRUE, FALSE)
      [] target = "ibuf" -> Param("ibuf", 50, FALSE, TRUE)
      [] OTHER -> Param(target, 50, FALSE, FALSE)

\* The submodules and the attributes the traced module has.
Submodules == {"fc1", "fc2", "fc3", "lin", "aux"}
Attributes == {"w", "buf", "ibuf"}

\* Mutant: nothing is looked up, a target that does not exist has no
\* parameters.
ResolvesAlways(node) == TRUE

\* gm.get_submodule(node.target) and getattr(gm, node.target) find the target.
Resolves(node) ==
    CASE node.op = "call_module" -> node.target \in Submodules
      [] node.op = "get_attr" -> node.target \in Attributes
      [] OTHER -> TRUE

Node(op, target) == [op |-> op, target |-> target]

\* The nodes a graph body is made of.
BodyNodes ==
    { Node("call_module", t) : t \in {"fc1", "fc2", "fc3", "lin", "aux"} }
        \cup { Node("get_attr", "w"), Node("call_function", "relu") }

\* The nodes the bodies one node longer than MaxBody are made of.
LongBodyNodes == { Node("call_module", "fc2"), Node("get_attr", "w") }

GraphOf(body) ==
    << Node("placeholder", "x") >> \o body \o << Node("output", "output") >>

\* A graph of two inputs.
TwoInputGraphOf(body) ==
    << Node("placeholder", "x"), Node("placeholder", "y") >>
        \o body \o << Node("output", "output") >>

\* The traced graphs: one or two placeholders, a body, one output.
Graphs ==
    { GraphOf(body) :
        body \in UNION { [1..n -> BodyNodes] : n \in 0..MaxBody }
                    \cup [1..(MaxBody + 1) -> LongBodyNodes] }
    \cup { TwoInputGraphOf(body) : body \in [1..MaxBody -> LongBodyNodes] }

\* The nodes of the graphs compiled in the runs that vary the environment.
EnvBodyNodes == { Node("call_module", "fc2"), Node("get_attr", "w") }

EnvGraphs ==
    { GraphOf(body) : body \in UNION { [1..n -> EnvBodyNodes] : n \in 0..MaxEnvBody } }

\* The nodes of the graphs with buffers and with targets that do not exist.
TargetBodyNodes ==
    { Node("call_module", "aux"), Node("call_module", "gone"),
      Node("get_attr", "w"), Node("get_attr", "buf"), Node("get_attr", "ibuf"),
      Node("get_attr", "gone") }

TargetGraphs ==
    { GraphOf(body) :
        body \in UNION { [1..n -> TargetBodyNodes] : n \in 0..MaxTargetBody } }

\* n.args: a call node consumes the value of the node before it, a get_attr
\* and a placeholder consume nothing, the output returns every value that no
\* other node consumed.
IsCall(node) == node.op \in {"call_module", "call_function"}

Users(g, i) == { j \in 1..Len(g) : j > i /\
                    IF g[j].op = "output"
                    THEN i < j /\ (i = j - 1 \/ ~IsCall(g[i + 1]))
                    ELSE IsCall(g[j]) /\ j = i + 1 }

----------------------------------------------------------------------------
(* Bucket *)

EmptyBucket == [size |-> 0, params |-> << >>, nodes |-> << >>, param_ids |-> << >>]

\* Mutant: the marker is never found on the parameter.
IgnoreParameterNever(param) == FALSE

\* Mutant: the marker is read the wrong way round.
IgnoreParameterInverted(param) == ~param.ddp_ignored

\* DDPOptimizer._ignore_parameter
IgnoreParameter(param) == param.ddp_ignored

\* Mutant: nodes that are not module calls or attribute reads are skipped too.
SkipNodeAlsoFunctions(node) == node.op \in {"output", "placeholder", "call_function"}

\* if node.op in ("output", "placeholder"): continue
SkipNode(node) == node.op \in {"output", "placeholder"}

\* Mutant: the comparisons are turned around.
ShouldOpenBucketFlipped(bs) ==
    \/ bs[1].size <= bucket_bytes_cap
    \/ (Len(bs) = 1 /\ bs[1].size <= first_bucket_cap)

\* Mutant: first_bucket_cap is never consulted.
ShouldOpenBucketOnlyBytesCap(bs) == bs[1].size >= bucket_bytes_cap

\* Mutant: first_bucket_cap is consulted however many buckets exist.
ShouldOpenBucketFirstCapAlways(bs) ==
    \/ bs[1].size >= bucket_bytes_cap
    \/ bs[1].size >= first_bucket_cap

\* Mutant: every node opens a bucket of its own.
ShouldOpenBucketAlways(bs) == TRUE

\* The test that opens a new bucket before a node.
ShouldOpenBucket(bs) ==
    \/ bs[1].size >= bucket_bytes_cap
    \/ (Len(bs) = 1 /\ bs[1].size >= first_bucket_cap)

\* Mutant: the new bucket is appended instead of inserted at the front.
OpenBucketAppend(bs) == bs \o << EmptyBucket >>

\* buckets.insert(0, Bucket())
OpenBucket(bs) == << EmptyBucket >> \o bs

\* id(param): the parameter `name` of the submodule `owner` ("" for an
\* attribute of gm itself).
ParamId(owner, name) == [owner |-> owner, name |-> name]

\* Account one parameter to a bucket under a recorded name and identity.
\* Mutant: a parameter already recorded in the bucket is not recorded again.
AddParamOnce(b, p, pname, pid) ==
    IF p.requires_grad /\ ~IgnoreParameter(p)
       /\ \A j \in 1..Len(b.param_ids) : b.param_ids[j] # pid
    THEN [b EXCEPT !.size = @ + p.nbytes,
                   !.params = Append(@, pname),
                   !.param_ids = Append(@, pid)]
    ELSE b

\* Mutant: only the ignore marker is tested, not requires_grad.
AddParamIgnoreOnly(b, p, pname, pid) ==
    IF ~IgnoreParameter(p)
    THEN [b EXCEPT !.size = @ + p.nbytes,
                   !.params = Append(@, pname),
                   !.param_ids = Append(@, pid)]
    ELSE b

AddParam(b, p, pname, pid) ==
    IF p.requires_grad /\ ~IgnoreParameter(p)
    THEN [b EXCEPT !.size = @ + p.nbytes,
                   !.params = Append(@, pname),
                   !.param_ids = Append(@, pid)]
    ELSE b

RECURSIVE AddModuleParams(_, _, _, _)
AddModuleParams(b, target, ps, k) ==
    IF k > Len(ps) THEN b
    ELSE AddModuleParams(
            AddParam(b, ps[k], << target, "_", ps[k].name >>, ParamId(target, ps[k].name)),
            target, ps, k + 1)

\* The parameter accounting of one visited node on the front bucket.
AddNodeParams(b, node) ==
    CASE node.op = "call_module" ->
            AddModuleParams(b, node.target, NamedParameters(node.target), 1)
      [] node.op = "get_attr" ->
            AddParam(b, Attribute(node.target), << node.target >>, ParamId("", node.target))
      [] OTHER -> b

\* Mutant: a bucket is opened when the node's parameters would not fit
\* (the test is made on the size the bucket would have after the node).
VisitNodeFitFirst(bs, i) ==
    IF SkipNode(gm[i]) THEN bs
    ELSE LET added == AddNodeParams(bs[1], gm[i])
             opened == IF bs[1].size > 0 /\ ShouldOpenBucket(<< added >> \o Tail(bs))
                       THEN OpenBucket(bs) ELSE bs
             front == AddNodeParams(opened[1], gm[i])
         IN [opened EXCEPT ![1] = [front EXCEPT !.nodes = Append(@, i)]]

\* Mutant: the closure test is made after the node was added, and a bucket
\* the node filled is closed at once.
VisitNodeCheckAfter(bs, i) ==
    IF SkipNode(gm[i]) THEN bs
    ELSE LET front == AddNodeParams(bs[1], gm[i])
             added == [bs EXCEPT ![1] = [front EXCEPT !.nodes = Append(@, i)]]
         IN IF ShouldOpenBucket(added) THEN OpenBucket(added) ELSE added

\* One iteration of the loop over reversed(gm.graph.nodes).
VisitNode(bs, i) ==
    IF SkipNode(gm[i]) THEN bs
    ELSE LET opened == IF ShouldOpenBucket(bs) THEN OpenBucket(bs) ELSE bs
             front == AddNodeParams(opened[1], gm[i])
         IN [opened EXCEPT ![1] = [front EXCEPT !.nodes = Append(@, i)]]

----------------------------------------------------------------------------
(* __init__ and compile_fn *)

\* The state before the DDPOptimizer is built, the autograd multithreading
\* flag holding one of the values in flags.
\* The classes handed to register_overlapped and _as_overlapped_optim:
\* optimizers and overlapped optimizers alike are plain classes.
Classes == {"Optimizer", "SGD", "_OverlappedStandardOptimizer", "OverlappedSGD"}

\* inspect.getmro(cls), up to the classes of interest.
Mro(cls) == IF cls = "SGD" THEN << "SGD", "Optimizer" >> ELSE << cls >>

\* _registered_overlapped_optims once the module is imported:
\* @register_overlapped(Optimizer) class _OverlappedStandardOptimizer
RegistryAtImport == "Optimizer" :> "_OverlappedStandardOptimizer"

InitOn(flags) ==
    /\ pc = "new"
    /\ bucket_bytes_cap = 0
    /\ first_bucket_cap = 0
    /\ gm = << >>
    /\ idx = 0
    /\ buckets = << >>
    /\ self_buckets = << >>
    /\ partition_map = << >>
    /\ split_gm = NoSplit
    /\ walk = 0
    /\ backend_calls = << >>
    /\ result = NoResult
    /\ error = None
    /\ dist_initialized \in BOOLEAN
    /\ invoked = << >>
    /\ multithreading_enabled \in flags
    /\ prev_multithreading = multithreading_enabled
    /\ logged = NoLog
    /\ example_inputs = << >>
    /\ env = << >>
    /\ registered_overlapped_optims = RegistryAtImport
    /\ register_outcome = "none"
    /\ overlapped_for = "none"

\* A process that left autograd multithreading at its default, enabled.
Init == InitOn({TRUE})

\* Mutant: the assertion compares the caps the wrong way round.
CapsAcceptedReversed(first, cap) == first >= cap

\* assert self.first_bucket_cap <= self.bucket_bytes_cap
CapsAccepted(first, cap) == first <= cap

\* DDPOptimizer.__init__.  fb_given: first_bucket_cap is not None;
\* default_first: the value of torch.distributed._DEFAULT_FIRST_BUCKET_BYTES,
\* which the C10D library sets.
Construct ==
    /\ pc = "new"
    /\ \E cap \in CapValues, fb_given \in BOOLEAN, fb \in CapValues,
          dist_available \in BOOLEAN, default_first \in CapValues :
         LET first == IF fb_given THEN fb
                      ELSE IF dist_available THEN default_first ELSE cap
         IN /\ first_bucket_cap' = first
            /\ bucket_bytes_cap' = cap
            /\ IF CapsAccepted(first, cap)
               THEN pc' = "ready" /\ error' = error
               ELSE pc' = "raised" /\ error' = "AssertionError"
    /\ UNCHANGED <<gm, idx, buckets, self_buckets, partition_map, split_gm, walk,
                   backend_calls, result, dist_initialized, invoked,
                   multithreading_enabled, prev_multithreading, logged,
                   example_inputs, env>>
    /\ UNCHANGED registry_vars

\* A tensor is a real one, holding data, or a FakeTensor.
TensorKinds == {"real", "fake"}

\* fake_mode_from_tensors(example_inputs) is not None: some input is fake.
FakeModeFromTensors(inputs) == \E i \in 1..Len(inputs) : inputs[i] = "fake"

\* compile_fn, up to the start of the scan, on one of the graphs in G.
CompileFnOn(G) ==
    /\ pc = "ready"
    /\ \E g \in G :
       \E inputs \in [1..Cardinality({ i \in 1..Len(g) : g[i].op = "placeholder" })
                        -> TensorKinds] :
         /\ gm' = g
         /\ example_inputs' = inputs
         /\ IF FakeModeFromTensors(inputs)
            THEN /\ pc' = "scan"
                 /\ buckets' = << EmptyBucket >>
                 /\ idx' = Len(g)
                 /\ error' = error
            ELSE /\ pc' = "raised"
                 /\ error' = "AssertionError"
                 /\ UNCHANGED <<buckets, idx>>
    /\ UNCHANGED <<bucket_bytes_cap, first_bucket_cap, self_buckets, partition_map,
                   split_gm, walk, backend_calls, result, dist_initialized, invoked,
                   multithreading_enabled, prev_multithreading, logged, env>>
    /\ UNCHANGED registry_vars

CompileFn == CompileFnOn(Graphs)

\* for node in reversed(gm.graph.nodes): ...  A target that does not exist
\* makes get_submodule or getattr raise, after the closure test of the node.
ScanNode ==
    /\ pc = "scan"
    /\ idx >= 1
    /\ IF Resolves(gm[idx])
       THEN /\ buckets' = VisitNode(buckets, idx)
            /\ idx' = idx - 1
            /\ pc' = pc
            /\ error' = error
       ELSE /\ buckets' = IF ShouldOpenBucket(buckets)
                          THEN OpenBucket(buckets) ELSE buckets
            /\ idx' = idx
            /\ pc' = "raised"
            /\ error' = "AttributeError"
    /\ UNCHANGED <<bucket_bytes_cap, first_bucket_cap, gm, self_buckets,
                   partition_map, split_gm, walk, backend_calls, result,
                   dist_initialized, invoked, multithreading_enabled,
                   prev_multithreading, logged,
                   example_inputs, env>>
    /\ UNCHANGED registry_vars

\* The rows of one bucket: (idx, size, first name), then (None, None, name)
\* for each further name; None is written -1.
BucketRows(index, b) ==
    [ j \in 1..Len(b.params) |->
        [ index |-> IF j = 1 THEN index ELSE -1,
          size  |-> IF j = 1 THEN b.size ELSE -1,
          param |-> b.params[j] ] ]

\* for idx, bucket in enumerate(reversed(buckets)): the rows of the buckets
\* bs[1..k], the last of the list first; buckets without parameters give none.
RECURSIVE Rows(_, _)
Rows(bs, k) ==
    IF k = 0 THEN << >>
    ELSE BucketRows(Len(bs) - k, bs[k]) \o Rows(bs, k - 1)

\* Mutant: without tabulate the rows are logged as plain text.
PrettyPrintBucketsPlainText(bs, has_tabulate) ==
    IF has_tabulate
    THEN [kind |-> "table", rows |-> Rows(bs, Len(bs))]
    ELSE [kind |-> "text", rows |-> Rows(bs, Len(bs))]

\* pretty_print_buckets: what it logs.  has_tabulate: `from tabulate import
\* tabulate` succeeds; on ImportError only the install hint is logged.
PrettyPrintBuckets(bs, has_tabulate) ==
    IF has_tabulate
    THEN [kind |-> "table", rows |-> Rows(bs, Len(bs))]
    ELSE [kind |-> "hint", rows |-> << >>]

\* Mutant: the instance keeps an empty list.
StashedBucketsEmpty(bs) == << >>

\* self.buckets = buckets
StashedBuckets(bs) == bs

\* self.buckets = buckets; pretty_print_buckets(buckets), tabulate being
\* installed or not as tabulate_installed allows.
StashWith(tabulate_installed) ==
    /\ pc = "scan"
    /\ idx = 0
    /\ self_buckets' = StashedBuckets(buckets)
    /\ \E has_tabulate \in tabulate_installed :
         logged' = PrettyPrintBuckets(buckets, has_tabulate)
    /\ pc' = "stashed"
    /\ UNCHANGED <<bucket_bytes_cap, first_bucket_cap, gm, idx, buckets,
                   partition_map, split_gm, walk, backend_calls, result, error,
                   dist_initialized, invoked, multithreading_enabled,
                   prev_multithreading, example_inputs, env>>
    /\ UNCHANGED registry_vars

Stash == StashWith({TRUE})

----------------------------------------------------------------------------
(* Partitioning: partition_map and split_module *)

Range(f) == { f[x] : x \in DOMAIN f }

SetMax(S) == CHOOSE x \in S : \A y \in S : y <= x
SetMin(S) == CHOOSE x \in S : \A y \in S : x <= y

\* Mutant: the buckets are numbered from the end of the list.
PartitionMapReversed(bs) ==
    [ n \in UNION { Range(bs[k].nodes) : k \in 1..Len(bs) } |->
        SetMax({ Len(bs) - k : k \in { j \in 1..Len(bs) : n \in Range(bs[j].nodes) } }) ]

\* for idx, b in enumerate(buckets): for node in b.nodes: partition_map[node] = idx
PartitionMapOf(bs) ==
    [ n \in UNION { Range(bs[k].nodes) : k \in 1..Len(bs) } |->
        SetMax({ k - 1 : k \in { j \in 1..Len(bs) : n \in Range(bs[j].nodes) } }) ]

\* The elements of a set of integers in ascending order of key(x), then of x.
RECURSIVE SortedBy(_, _)
SortedBy(S, key) ==
    IF S = {} THEN << >>
    ELSE LET m == CHOOSE x \in S : \A y \in S :
                     key[x] < key[y] \/ (key[x] = key[y] /\ x <= y)
         IN << m >> \o SortedBy(S \ {m}, key)

Ascending(S) == SortedBy(S, [ x \in S |-> x ])

\* A bare value n, as the args of an output node hold it.
Bare(n) == [isTuple |-> FALSE, elems |-> << n >>]
\* A tuple of values.
TupleOf(ns) == [isTuple |-> TRUE, elems |-> ns]

\* The values of partition k that a node outside it consumes, in the order
\* in which their first consumer comes in the graph.
PartitionOutputs(g, pm, k) ==
    LET members == { n \in DOMAIN pm : pm[n] = k }
        outs == { n \in members :
                    \E j \in Users(g, n) : j \notin members }
        FirstUse == [ n \in outs |-> SetMin(Users(g, n)) ]
    IN SortedBy(outs, FirstUse)

\* The placeholders of g, in order.
Placeholders(g) == Ascending({ i \in 1..Len(g) : g[i].op = "placeholder" })

\* The nodes whose values the output node of g returns, in order.
OutputArgs(g) == Ascending({ i \in 1..Len(g) : Len(g) \in Users(g, i) })

\* The output node of the submodule of partition k: the value itself when
\* one value leaves the partition, else the tuple of the values.
SubmodOutput(g, pm, k) ==
    LET outs == PartitionOutputs(g, pm, k)
    IN IF Len(outs) = 1 THEN Bare(outs[1]) ELSE TupleOf(outs)

\* split_module(gm, None, lambda node: partition_map[node]): one submodule per
\* distinct partition index, called in dependency order by the parent graph,
\* which keeps the placeholders and the output of gm.
SplitModule(g, pm) ==
    LET parts == Range(pm)
    IN [ made |-> TRUE,
         submods |-> [ k \in parts |->
                        [ nodes |-> Ascending({ n \in DOMAIN pm : pm[n] = k }),
                          output |-> SubmodOutput(g, pm, k) ] ],
         calls |-> [ i \in 1..Cardinality(parts) |->
                        [ compiled |-> FALSE,
                          part |-> Ascending(parts)[i] ] ],
         wrappers |-> << >>,
         placeholders |-> Placeholders(g),
         output |-> OutputArgs(g) ]

\* split_module fails on a node the callback has no partition for.
MapCoversGraph(g, pm) ==
    \A n \in 1..Len(g) : ~SkipNode(g[n]) => n \in DOMAIN pm

\* print("LOWERING GM", split_gm.submod_2): the attribute must exist.
HasSubmod(split, k) == k \in DOMAIN split.submods

----------------------------------------------------------------------------
(* SubmodCompiler *)

\* Mutant: the wrapper unwraps whatever its flag says.
WrapperForwardAlwaysUnwrap(unwrap_singleton_tuple, x) == Bare(x.elems[1])

\* Mutant: the flag is never set.
UnwrapSingletonTupleNever(output) == FALSE

\* unwrap_singleton_tuple as compile_submod computes it from the output node.
UnwrapSingletonTuple(output) == ~output.isTuple

\* sn.args = (sn.args,) on an output node whose args[0] is not a tuple.
RewriteOutput(output) ==
    IF ~output.isTuple THEN TupleOf(output.elems) ELSE output

\* WrapperModule.forward on the value x its submod returned.
WrapperForward(unwrap_singleton_tuple, x) ==
    IF unwrap_singleton_tuple /\ x.isTuple THEN Bare(x.elems[1]) ELSE x

\* The rank query made for the partitions named submod_1 and submod_2.
RankQueryFails(k) == k \in {1, 2} /\ ~dist_initialized

\* Mutant: the shortcut tests for an empty bucket list.
IsSingleBucketEmptyList(bs) == Len(bs) = 0

\* if len(buckets) == 1: bypass split/fuse logic
IsSingleBucket(bs) == Len(bs) = 1

\* One call backend_compile_fn(mod, args).
BackendCall(mod, part, args) == [mod |-> mod, part |-> part, args |-> args]

\* if len(buckets) == 1: return self.backend_compile_fn(gm, example_inputs)
SingleBucket ==
    /\ pc = "stashed"
    /\ IsSingleBucket(buckets)
    /\ backend_calls' = Append(backend_calls, BackendCall("gm", -1, example_inputs))
    /\ \E ok \in BOOLEAN :
         IF ok
         THEN /\ pc' = "returned"
              /\ result' = [kind |-> "backend", call |-> Len(backend_calls')]
              /\ error' = error
         ELSE /\ pc' = "raised"
              /\ error' = "BackendError"
              /\ result' = result
    /\ UNCHANGED <<bucket_bytes_cap, first_bucket_cap, gm, idx, buckets, self_buckets,
                   partition_map, split_gm, walk, dist_initialized, invoked,
                   multithreading_enabled, prev_multithreading, logged,
                   example_inputs, env>>
    /\ UNCHANGED registry_vars

\* A value of the interpreter's environment: a real or a fake tensor, and
\* what produced it.
Value(kind, by) == [kind |-> kind, by |-> by]

\* Interpreter.run binds each placeholder to its example input, as given.
PlaceholderEnv(g, inputs) ==
    [ m \in { i \in 1..Len(g) : g[i].op = "placeholder" } |->
        Value(inputs[m], "example_inputs") ]

\* What the guard of set_multithreading_enabled puts back when it is released.
GuardRestore(prev) == prev

\* Mutant: the flag is put back only on the normal exit of the block.
FlagAfterRaiseLeak(prev, current) == current

\* The flag once an exception has left the with block: __exit__ has run.
FlagAfterRaise(prev, current) == GuardRestore(prev)

\* The flag once the with block was left normally.
FlagAfterBlock(prev, current) == GuardRestore(prev)

\* Steps 2 and 3 of compile_fn up to the interpreter walk: the with block
\* of set_multithreading_enabled(False) is entered when line 315 passed.
Partition ==
    /\ pc = "stashed"
    /\ ~IsSingleBucket(buckets)
    /\ partition_map' = PartitionMapOf(buckets)
    /\ IF ~MapCoversGraph(gm, partition_map')
       THEN /\ pc' = "raised"
            /\ error' = "KeyError"
            /\ split_gm' = split_gm
            /\ UNCHANGED <<multithreading_enabled, prev_multithreading, env>>
       ELSE /\ split_gm' = SplitModule(gm, partition_map')
            /\ IF HasSubmod(split_gm', 2)
               THEN /\ pc' = "walk"
                    /\ error' = error
                    /\ prev_multithreading' = multithreading_enabled
                    /\ multithreading_enabled' = FALSE
                    /\ env' = PlaceholderEnv(gm, example_inputs)
               ELSE /\ pc' = "raised"
                    /\ error' = "AttributeError"
                    /\ UNCHANGED <<multithreading_enabled, prev_multithreading, env>>
    /\ walk' = 0
    /\ UNCHANGED <<bucket_bytes_cap, first_bucket_cap, gm, idx, buckets, self_buckets,
                   backend_calls, result, dist_initialized, invoked, logged,
                   example_inputs>>
    /\ UNCHANGED registry_vars

\* Mutant: a failure of the backend on a partition is caught and the walk
\* goes on with the partition left uncompiled.
PcAfterBackendErrorCaught == "walk"

\* Where compile_fn stands after self.compiler(input_mod, args) raised: no
\* handler surrounds the call, the exception leaves compile_fn.
PcAfterBackendError == "raised"

\* Mutant: the wrapper is added but the original submodule is not deleted
\* and the node keeps its target.
InstallWrapperKeepOriginal(split, i, k, wrapper) ==
    [split EXCEPT
       !.wrappers = [ j \in DOMAIN @ \cup {k} |-> IF j = k THEN wrapper ELSE @[j] ] ]

\* self.module.delete_submodule(n.target); n.target = "compiled_" + n.target;
\* self.module.add_submodule(n.target, compiled_submod_real)
InstallWrapper(split, i, k, wrapper) ==
    [split EXCEPT
       !.submods = [ j \in DOMAIN @ \ {k} |-> @[j] ],
       !.calls[i].compiled = TRUE,
       !.wrappers = [ j \in DOMAIN @ \cup {k} |-> IF j = k THEN wrapper ELSE @[j] ] ]

\* The values from outside partition k that its nodes consume, in order.
PartitionInputs(k) ==
    Ascending({ m \in 1..Len(gm) :
                  /\ (m \notin DOMAIN partition_map \/ partition_map[m] # k)
                  /\ \E n \in Users(gm, m) :
                       n \in DOMAIN partition_map /\ partition_map[n] = k })

\* Mutant: the arguments are used as fetched.
ToFakeNever(v) == v

\* fake_mode.from_tensor(arg) for a Tensor that is not a FakeTensor; any
\* other argument is kept.
ToFake(v) == IF v.kind = "real" THEN Value("fake", v.by) ELSE v

\* args of the boundary node of partition k as fetch_args_kwargs_from_env
\* finds them, and new_args.
FetchArgs(k) == [ j \in 1..Len(PartitionInputs(k)) |-> env[PartitionInputs(k)[j]] ]
NewArgs(k) == [ j \in 1..Len(PartitionInputs(k)) |-> ToFake(FetchArgs(k)[j]) ]

\* The kinds of the tensors in a list of arguments.
Kinds(args) == [ j \in 1..Len(args) |-> args[j].kind ]

\* What running a module on args yields: real data only when run on real data.
RunKind(args) ==
    IF \E j \in 1..Len(args) : args[j].kind = "real" THEN "real" ELSE "fake"

\* Mutant: the walk goes on with the result of the compiled callable.
ResultOfCompiled(new_args) == Value(RunKind(new_args), "compiled_submod_real")

\* What run_node returns for a boundary node: fake_submod(*new_args).
ResultOfWalk(new_args) == Value(RunKind(new_args), "fake_submod")

\* Mutant: the submodule shares its nodes with the original graph, so the
\* renaming of the target reaches them.
GraphAfterRunNodeInPlace(g, members) ==
    [ n \in 1..Len(g) |->
        IF n \in Range(members) THEN Node(g[n].op, "compiled_") ELSE g[n] ]

\* The original graph after run_node worked on a boundary node: input_mod
\* and the node n belong to the structure split_module built, whose graphs
\* hold nodes of their own, so no node of gm is written.
GraphAfterRunNode(g, members) == g

\* SubmodCompiler.run_node on the next partition-boundary node.
RunNode ==
    /\ pc = "walk"
    /\ walk < Len(split_gm.calls)
    /\ LET k == split_gm.calls[walk + 1].part
           real_mod == split_gm.submods[k]
           unwrap == UnwrapSingletonTuple(real_mod.output)
           rewritten == [real_mod EXCEPT !.output = RewriteOutput(@)]
       IN IF RankQueryFails(k)
          THEN /\ pc' = "raised"
               /\ error' = "RuntimeError"
               /\ UNCHANGED <<gm, split_gm, walk, backend_calls, env>>
          ELSE /\ gm' = GraphAfterRunNode(gm, real_mod.nodes)
               /\ backend_calls' =
                    Append(backend_calls, BackendCall("submod", k, Kinds(NewArgs(k))))
               /\ \E ok \in BOOLEAN :
                    IF ok
                    THEN /\ split_gm' =
                              InstallWrapper(split_gm, walk + 1, k,
                                  [ submod |-> Len(backend_calls'),
                                    graph_output |-> rewritten.output,
                                    unwrap_singleton_tuple |-> unwrap ])
                         /\ env' = [ m \in DOMAIN env \cup Range(real_mod.output.elems) |->
                                      IF m \in DOMAIN env THEN env[m]
                                      ELSE ResultOfWalk(NewArgs(k)) ]
                         /\ walk' = walk + 1
                         /\ pc' = pc
                         /\ error' = error
                    ELSE /\ env' = env
                         /\ split_gm' = [split_gm EXCEPT !.submods[k] = rewritten]
                         /\ pc' = PcAfterBackendError
                         /\ error' = "BackendError"
                         /\ walk' = IF pc' = "raised" THEN walk ELSE walk + 1
    /\ multithreading_enabled' =
         IF pc' = "raised"
         THEN FlagAfterRaise(prev_multithreading, multithreading_enabled)
         ELSE multithreading_enabled
    /\ UNCHANGED <<bucket_bytes_cap, first_bucket_cap, idx, buckets, self_buckets,
                   partition_map, result, dist_initialized, invoked,
                   prev_multithreading, logged, example_inputs>>
    /\ UNCHANGED registry_vars

\* Mutant: compile_fn returns the callable the backend made last.
ReturnedLastCompiled(calls) == [kind |-> "backend", call |-> Len(calls)]

\* return split_gm
ReturnedSplit(calls) == [kind |-> "split_gm", call |-> 0]

\* submod_compiler.run has visited every node: split_gm.recompile(), still
\* inside the with block.
FinalRecompile ==
    /\ pc = "walk"
    /\ walk = Len(split_gm.calls)
    /\ pc' = "recompiled"
    /\ UNCHANGED <<bucket_bytes_cap, first_bucket_cap, gm, idx, buckets, self_buckets,
                   partition_map, split_gm, walk, backend_calls, result, error,
                   dist_initialized, invoked, multithreading_enabled,
                   prev_multithreading, logged, example_inputs, env>>
    /\ UNCHANGED registry_vars

\* The with block is left; return split_gm
ReturnSplit ==
    /\ pc = "recompiled"
    /\ result' = ReturnedSplit(backend_calls)
    /\ pc' = "returned"
    /\ multithreading_enabled' =
         FlagAfterBlock(prev_multithreading, multithreading_enabled)
    /\ UNCHANGED <<bucket_bytes_cap, first_bucket_cap, gm, idx, buckets, self_buckets,
                   partition_map, split_gm, walk, backend_calls, error,
                   dist_initialized, invoked, prev_multithreading, logged,
                   example_inputs, env>>
    /\ UNCHANGED registry_vars

\* What the compiled callable of a partition returns: the value of the
\* output of the graph it was compiled from.
CompiledCall(wrapper) == wrapper.graph_output

\* One call of the fused callable: every wrapper's forward runs once.
InvokeFused ==
    /\ pc = "returned"
    /\ result.kind = "split_gm"
    /\ invoked' = [ k \in DOMAIN split_gm.wrappers |->
                      WrapperForward(split_gm.wrappers[k].unwrap_singleton_tuple,
                                     CompiledCall(split_gm.wrappers[k])) ]
    /\ pc' = "invoked"
    /\ UNCHANGED <<bucket_bytes_cap, first_bucket_cap, gm, idx, buckets, self_buckets,
                   partition_map, split_gm, walk, backend_calls, result, error,
                   dist_initialized, multithreading_enabled, prev_multithreading,
                   logged,
                   example_inputs, env>>
    /\ UNCHANGED registry_vars

----------------------------------------------------------------------------
(* The process environment: the multithreading flag as the caller left it,  *)
(* tabulate installed or not, and further compile_fn calls on the instance. *)

InitEnv == InitOn(BOOLEAN)

\* compile_fn on a graph that reads buffers or names targets that do not exist.
CompileFnTargets == CompileFnOn(TargetGraphs)

CompileFnEnv == CompileFnOn(EnvGraphs)

StashEnv == StashWith(BOOLEAN)

\* compile_fn has returned or raised: the instance exists and no call runs.
CallEnded == pc \in {"returned", "invoked", "raised"} /\ gm # << >>

\* The caller turns to a new compile_fn call on the same instance: the locals
\* of the call that ended are gone, the instance and the process state stay.
Recompile ==
    /\ CallEnded
    /\ pc' = "ready"
    /\ gm' = << >>
    /\ idx' = 0
    /\ buckets' = << >>
    /\ partition_map' = << >>
    /\ split_gm' = NoSplit
    /\ walk' = 0
    /\ backend_calls' = << >>
    /\ result' = NoResult
    /\ error' = None
    /\ invoked' = << >>
    /\ logged' = NoLog
    /\ example_inputs' = << >>
    /\ env' = << >>
    /\ UNCHANGED <<bucket_bytes_cap, first_bucket_cap, self_buckets,
                   dist_initialized, multithreading_enabled, prev_multithreading>>
    /\ UNCHANGED registry_vars

----------------------------------------------------------------------------
(* optimizer_overlap.py: the registry of overlapped optimizers *)

\* if target_overlapped_optim_cls in _registered_overlapped_optims: the
\* membership test of a dict is made on its keys.
AlreadyRegistered(registry, target_overlapped_optim_cls) ==
    target_overlapped_optim_cls \in DOMAIN registry

\* The exception of the raise statement: its message is formatted first and
\* reads _registered_overlapped_optims[optim_cls].
RegisterError(registry, optim_cls) ==
    IF optim_cls \in DOMAIN registry THEN "ValueError" ELSE "KeyError"

\* _registered_overlapped_optims[optim_cls] = target_overlapped_optim_cls
Registered(registry, optim_cls, target_overlapped_optim_cls) ==
    [ k \in DOMAIN registry \cup {optim_cls} |->
        IF k = optim_cls THEN target_overlapped_optim_cls ELSE registry[k] ]

\* register_overlapped(optim_cls)(target_overlapped_optim_cls)
RegisterOverlapped ==
    /\ \E optim_cls \in Classes, target_overlapped_optim_cls \in Classes :
         IF AlreadyRegistered(registered_overlapped_optims, target_overlapped_optim_cls)
         THEN /\ register_outcome' = RegisterError(registered_overlapped_optims, optim_cls)
              /\ registered_overlapped_optims' = registered_overlapped_optims
         ELSE /\ register_outcome' = "registered"
              /\ registered_overlapped_optims' =
                   Registered(registered_overlapped_optims, optim_cls,
                              target_overlapped_optim_cls)
    /\ UNCHANGED overlapped_for
    /\ UNCHANGED ddp_vars

\* The class _as_overlapped_optim instantiates: the entry of the first class
\* of the MRO that has one, else _OverlappedStandardOptimizer.
RECURSIVE OverlappedClassFor(_, _)
OverlappedClassFor(registry, mro) ==
    IF mro = << >> THEN "_OverlappedStandardOptimizer"
    ELSE IF Head(mro) \in DOMAIN registry THEN registry[Head(mro)]
    ELSE OverlappedClassFor(registry, Tail(mro))

\* _as_overlapped_optim(optim_cls, params, *args, **kwargs)
AsOverlappedOptim ==
    /\ \E optim_cls \in Classes :
         overlapped_for' = OverlappedClassFor(registered_overlapped_optims, Mro(optim_cls))
    /\ UNCHANGED <<registered_overlapped_optims, register_outcome>>
    /\ UNCHANGED ddp_vars

NextRegistry ==
    \/ RegisterOverlapped
    \/ AsOverlappedOptim

SpecRegistry == Init /\ [][NextRegistry]_vars

----------------------------------------------------------------------------
(* Vocabulary of the properties *)

\* The reverse scan of compile_fn has visited every node.
ScanDone ==
    \/ (pc = "scan" /\ idx = 0)
    \/ pc \in {"stashed", "walk", "recompiled", "returned", "invoked"}
    \/ (pc = "raised" /\ Len(buckets) > 0)

\* The nodes that are neither placeholder nor output.
Eligible(g) == { n \in 1..Len(g) : g[n].op \notin {"placeholder", "output"} }

\* The places <<bucket, position>> at which node n is a member.
Memberships(bs, n) ==
    { pos \in UNION { {k} \X (1..Len(bs[k].nodes)) : k \in 1..Len(bs) } :
        bs[pos[1]].nodes[pos[2]] = n }

\* The cap that decides the closure of the bucket at list position k: the
\* bucket opened first (the last of the list) was closed while it was the
\* only one.
ApplicableCap(bs, k) ==
    IF k = Len(bs) THEN first_bucket_cap ELSE bucket_bytes_cap

\* The parameter a recorded identity stands for.
ParamById(pid) ==
    IF pid.owner = "" THEN Attribute(pid.name)
    ELSE LET ps == NamedParameters(pid.owner)
         IN ps[CHOOSE i \in 1..Len(ps) : ps[i].name = pid.name]

RECURSIVE SumBytes(_, _)
SumBytes(pids, n) ==
    IF n = 0 THEN 0 ELSE SumBytes(pids, n - 1) + ParamById(pids[n]).nbytes

\* The parameters of a node that DDP synchronizes.
SyncParams(node) ==
    LET ps == IF node.op = "call_module" THEN NamedParameters(node.target)
              ELSE IF node.op = "get_attr" THEN << Attribute(node.target) >>
              ELSE << >>
    IN { i \in 1..Len(ps) : ps[i].requires_grad /\ ~ps[i].ddp_ignored }

RECURSIVE SetSum(_, _)
SetSum(S, f) ==
    IF S = {} THEN 0
    ELSE LET x == CHOOSE y \in S : TRUE IN f[x] + SetSum(S \ {x}, f)

\* The bytes of the synchronizable parameters of a node.
NodeSyncBytes(node) ==
    LET ps == IF node.op = "call_module" THEN NamedParameters(node.target)
              ELSE IF node.op = "get_attr" THEN << Attribute(node.target) >>
              ELSE << >>
    IN SetSum(SyncParams(node), [ i \in 1..Len(ps) |-> ps[i].nbytes ])

----------------------------------------------------------------------------
(* C1 *)

\* C1: after the scan every node that is neither placeholder nor output is
\* a member of exactly one bucket, exactly once; no placeholder or output
\* node is a member of a bucket; and the partition map, once built, is
\* total over those nodes and maps each to the list index of its bucket.
C1_Coverage ==
    ScanDone =>
        /\ \A n \in 1..Len(gm) :
             Cardinality(Memberships(buckets, n)) =
                IF n \in Eligible(gm) THEN 1 ELSE 0
        /\ \A k \in 1..Len(buckets) :
             Range(buckets[k].nodes) \subseteq Eligible(gm)
        /\ (split_gm.made \/ error = "KeyError") =>
             /\ DOMAIN partition_map = Eligible(gm)
             /\ \A n \in Eligible(gm) :
                  n \in Range(buckets[partition_map[n] + 1].nodes)

\* A partitioned graph of several buckets that holds a node without parameters.
C1_Witness ==
    /\ ScanDone
    /\ split_gm.made
    /\ Len(buckets) >= 3
    /\ \E n \in Eligible(gm) : gm[n].op = "call_function"
    /\ \E n \in Eligible(gm) : gm[n].op = "call_module"

----------------------------------------------------------------------------
(* C2 *)

\* C2: during the scan a bucket is opened before a node only if the front
\* bucket's size has reached bucket_bytes_cap, or it is the only bucket and
\* its size has reached first_bucket_cap; so a front bucket below its
\* applicable cap is never closed; and a closed bucket (any bucket behind
\* the front) never changes again.
C2_ClosureOnlyAtCap ==
    [][ (pc = "scan" /\ pc' \in {"scan", "stashed"}) =>
          LET d == Len(buckets') - Len(buckets)
          IN /\ d \in {0, 1}
             /\ d = 1 =>
                  /\ \/ buckets[1].size >= bucket_bytes_cap
                     \/ (Len(buckets) = 1 /\ buckets[1].size >= first_bucket_cap)
                  /\ buckets[1].size >= ApplicableCap(buckets, 1)
                  /\ buckets'[2] = buckets[1]
             /\ \A k \in 2..Len(buckets) : buckets'[k + d] = buckets[k] ]_vars

\* The scan has closed a bucket that holds parameters and goes on.
C2_Witness ==
    /\ pc = "scan"
    /\ idx >= 1
    /\ Len(buckets) >= 2
    /\ buckets[2].size > 0
    /\ buckets[1].size > 0
    /\ buckets[1].size < bucket_bytes_cap

----------------------------------------------------------------------------
(* C3 *)

\* The position, among the parameters recorded in bucket b, of the one that
\* brought the size to the cap; 0 if there is none.
TriggerParam(b, cap) ==
    LET hits == { i \in 1..Len(b.param_ids) :
                    /\ SumBytes(b.param_ids, i - 1) < cap
                    /\ SumBytes(b.param_ids, i) >= cap }
    IN IF hits = {} THEN 0 ELSE SetMin(hits)

\* C3 as stated: no closed bucket exceeds its applicable (positive) cap by
\* more than the bytes of the single parameter that brought it to the cap.
C3_OvershootOneParameter ==
    \A k \in 2..Len(buckets) :
        LET b == buckets[k]
            cap == ApplicableCap(buckets, k)
            t == TriggerParam(b, cap)
        IN (cap > 0 /\ b.size > cap) =>
              /\ t # 0
              /\ b.size - cap <= ParamById(b.param_ids[t]).nbytes

\* C3, amended: no closed bucket exceeds its applicable cap by more than the
\* combined bytes of the synchronizable parameters of the single node that
\* triggered its closure, which is the last node added to it; before that
\* node the bucket was below a positive cap.
C3_OvershootOneNode ==
    \A k \in 2..Len(buckets) :
        LET b == buckets[k]
            cap == ApplicableCap(buckets, k)
            last == gm[b.nodes[Len(b.nodes)]]
        IN IF b.nodes = << >>
           THEN b.size <= cap
           ELSE /\ b.size - cap <= NodeSyncBytes(last)
                /\ cap > 0 => b.size - NodeSyncBytes(last) < cap

\* A closed bucket whose last node owns several synchronizable parameters
\* and took it further past the cap than any one of them.
C3_Witness ==
    \E k \in 2..Len(buckets) :
        LET b == buckets[k]
            cap == ApplicableCap(buckets, k)
            last == IF b.nodes = << >> THEN Node("none", "none")
                    ELSE gm[b.nodes[Len(b.nodes)]]
        IN /\ b.nodes # << >>
           /\ Cardinality(SyncParams(last)) >= 2
           /\ cap > 0
           /\ b.size - cap > 100

----------------------------------------------------------------------------
(* C4 *)

\* C4: while exactly one bucket exists, a second one is opened before a
\* visited node exactly when the only bucket's size has reached
\* first_bucket_cap (even below bucket_bytes_cap); once two or more buckets
\* exist, a bucket is opened exactly when the front bucket's size has
\* reached bucket_bytes_cap, whatever first_bucket_cap is.
C4_FirstBucketPrecedence ==
    [][ (pc = "scan" /\ idx >= 1 /\ idx \in Eligible(gm)) =>
          LET opened == Len(buckets') = Len(buckets) + 1
          IN /\ Len(buckets) = 1 =>
                  (opened <=> buckets[1].size >= first_bucket_cap)
             /\ Len(buckets) >= 2 =>
                  (opened <=> buckets[1].size >= bucket_bytes_cap) ]_vars

\* The first bucket was closed below bucket_bytes_cap, and a later front
\* bucket has passed first_bucket_cap without being closed.
C4_Witness ==
    /\ pc = "scan"
    /\ Len(buckets) = 2
    /\ buckets[2].size < bucket_bytes_cap
    /\ buckets[2].size >= first_bucket_cap
    /\ buckets[1].size >= first_bucket_cap
    /\ buckets[1].size < bucket_bytes_cap
    /\ Len(buckets[1].nodes) >= 2

----------------------------------------------------------------------------
(* C5 *)

\* Three sequential modules whose parameters are 100, 150 and 50 bytes.
ScenarioGraph ==
    GraphOf(<< Node("call_module", "fc1"), Node("call_module", "fc2"),
               Node("call_module", "fc3") >>)

ScenarioScanned ==
    /\ ScanDone
    /\ gm = ScenarioGraph
    /\ bucket_bytes_cap = 120
    /\ first_bucket_cap = 60

BucketSizes(bs) == [ k \in 1..Len(bs) |-> bs[k].size ]

\* C5 as stated: the scenario yields exactly 3 buckets, of sizes 50, 150
\* and 100, one parameter each.
C5_ScenarioThreeBuckets ==
    ScenarioScanned =>
        /\ Len(buckets) = 3
        /\ BucketSizes(buckets) \in {<<100, 150, 50>>, <<50, 150, 100>>}
        /\ \A k \in 1..Len(buckets) : Len(buckets[k].param_ids) = 1

\* C5, amended: the scenario yields exactly 2 buckets; list index 0 holds
\* the 100-byte node alone (size 100) and list index 1 holds the 50-byte
\* and the 150-byte node (size 200).
C5_ScenarioTwoBuckets ==
    ScenarioScanned =>
        /\ BucketSizes(buckets) = <<100, 200>>
        /\ buckets[1].nodes = <<2>>
        /\ buckets[2].nodes = <<4, 3>>
        /\ buckets[2].param_ids = << ParamId("fc3", "weight"), ParamId("fc2", "weight") >>

C5_Witness == ScenarioScanned /\ pc = "stashed"

----------------------------------------------------------------------------
(* C6 *)

\* The nodes that own a parameter marked _ddp_ignored.
OwnsIgnored(g) ==
    { n \in 1..Len(g) :
        \/ g[n].op = "call_module" /\
             \E i \in 1..Len(NamedParameters(g[n].target)) :
                 NamedParameters(g[n].target)[i].ddp_ignored
        \/ g[n].op = "get_attr" /\ Attribute(g[n].target).ddp_ignored }

\* C6: a parameter marked _ddp_ignored is recorded in no bucket's names or
\* identities and adds nothing to any size (a size is the sum of the bytes
\* of the recorded parameters), and after the scan the node that owns it is
\* a member of exactly one bucket.
C6_Exemption ==
    /\ \A k \in 1..Len(buckets) :
         LET b == buckets[k]
         IN /\ \A i \in 1..Len(b.param_ids) : ~ParamById(b.param_ids[i]).ddp_ignored
            /\ Len(b.params) = Len(b.param_ids)
            /\ \A i \in 1..Len(b.params) :
                 b.params[i][1] = IF b.param_ids[i].owner = ""
                                  THEN b.param_ids[i].name ELSE b.param_ids[i].owner
            /\ b.size = SumBytes(b.param_ids, Len(b.param_ids))
    /\ ScanDone =>
         \A n \in OwnsIgnored(gm) : Cardinality(Memberships(buckets, n)) = 1

\* A scanned graph in which a node with an ignored parameter shares a
\* bucket with a synchronized parameter.
C6_Witness ==
    /\ ScanDone
    /\ \E k \in 1..Len(buckets) :
         /\ buckets[k].size > 0
         /\ \E n \in OwnsIgnored(gm) : n \in Range(buckets[k].nodes)

----------------------------------------------------------------------------
(* C7 *)

\* Every parameter the graph refers to is marked _ddp_ignored.
AllExempt(g) ==
    \A n \in 1..Len(g) :
        /\ g[n].op = "call_module" =>
             \A i \in 1..Len(NamedParameters(g[n].target)) :
                 NamedParameters(g[n].target)[i].ddp_ignored
        /\ g[n].op = "get_attr" => Attribute(g[n].target).ddp_ignored

\* compile_fn has taken the single-bucket shortcut, or is about to.
OnShortcut ==
    /\ ~split_gm.made
    /\ partition_map = << >>
    /\ walk = 0
    /\ pc # "stashed" => backend_calls = << BackendCall("gm", -1, example_inputs) >>
    /\ pc \in {"returned", "invoked"} => result = [kind |-> "backend", call |-> 1]

\* C7 as stated: with every parameter exempt, whatever the caps, the scan
\* yields one bucket of size 0 and compile_fn takes the shortcut.
C7_AllExemptAnyCaps ==
    (ScanDone /\ pc # "scan" /\ AllExempt(gm)) =>
        /\ Len(buckets) = 1
        /\ buckets[1].size = 0
        /\ OnShortcut

\* C7, amended: with every parameter exempt every bucket has size 0; the
\* scan yields exactly one bucket and compile_fn takes the shortcut
\* whenever first_bucket_cap is positive or no node is eligible; with
\* first_bucket_cap = 0 and n >= 1 eligible nodes it yields 2 buckets
\* (bucket_bytes_cap positive) or n + 1 buckets (bucket_bytes_cap = 0), the
\* last of them without nodes, and compile_fn partitions the graph instead
\* of calling the backend on the whole graph.
C7_AllExemptPositiveCaps ==
    (ScanDone /\ pc # "scan" /\ AllExempt(gm)) =>
        /\ \A k \in 1..Len(buckets) : buckets[k].size = 0
        /\ IF first_bucket_cap > 0 \/ Eligible(gm) = {}
           THEN Len(buckets) = 1 /\ OnShortcut
           ELSE /\ Len(buckets) = IF bucket_bytes_cap > 0 THEN 2
                                  ELSE Cardinality(Eligible(gm)) + 1
                /\ buckets[Len(buckets)].nodes = << >>
                /\ pc # "stashed" =>
                     /\ DOMAIN partition_map = Eligible(gm)
                     /\ \A i \in 1..Len(backend_calls) : backend_calls[i].mod # "gm"

\* An all-exempt graph with exempt parameters, compiled through the
\* shortcut under positive caps.
C7_Witness ==
    /\ pc = "returned"
    /\ AllExempt(gm)
    /\ OwnsIgnored(gm) # {}
    /\ Cardinality(Eligible(gm)) >= 2
    /\ first_bucket_cap > 0
    /\ result.kind = "backend"

----------------------------------------------------------------------------
(* C8 *)

\* C8: when the scan produced exactly one bucket, compile_fn calls the
\* backend exactly once, on the whole original graph with the original
\* example inputs, returns exactly what that call returned, and neither
\* builds a partition map, nor splits the graph, nor walks it.
C8_SingleBucketShortcut ==
    (ScanDone /\ pc # "scan" /\ Len(buckets) = 1) => OnShortcut

\* compile_fn returned through the shortcut for a graph with synchronized
\* parameters.
C8_Witness ==
    /\ pc = "returned"
    /\ Len(buckets) = 1
    /\ buckets[1].size > 0
    /\ Len(buckets[1].nodes) >= 2
    /\ result = [kind |-> "backend", call |-> 1]

----------------------------------------------------------------------------
(* C9 *)

\* The order of the members in the bucket list.
BucketsOrdered ==
    /\ \A i, j \in 1..Len(buckets) :
         i < j => \A a \in Range(buckets[i].nodes), b \in Range(buckets[j].nodes) : a < b
    /\ \A k \in 1..Len(buckets) :
         \A p, q \in 1..Len(buckets[k].nodes) :
             p < q => buckets[k].nodes[p] > buckets[k].nodes[q]
    /\ (ScanDone /\ Eligible(gm) # {}) =>
         SetMin(Eligible(gm)) \in Range(buckets[1].nodes)

\* C9: a bucket opened during the scan is put at index 0, in front of the
\* buckets that existed, and takes the node being visited; so for list
\* positions i < j every member of bucket i precedes every member of
\* bucket j in construction order, within a bucket the members are listed
\* in reverse construction order, and after the scan the bucket at index 0
\* holds the first eligible node of the graph.
C9_BucketOrdering ==
    /\ []BucketsOrdered
    /\ [][ (pc = "scan" /\ Len(buckets') > Len(buckets)) =>
             /\ Tail(buckets') = buckets
             /\ buckets'[1].nodes = << idx >> ]_vars

\* Several buckets after the scan, one of them with several nodes.
C9_Witness ==
    /\ ScanDone
    /\ Len(buckets) >= 2
    /\ Len(buckets[1].nodes) >= 2
    /\ Len(buckets[2].nodes) >= 1

----------------------------------------------------------------------------
(* C10 *)

\* The output partition k declared when split_module produced it.
DeclaredOutput(k) == SubmodOutput(gm, partition_map, k)

\* C10: for a partition whose declared output was a single non-tuple value
\* the compiled graph's output is the one-element tuple of that value, the
\* wrapper's unwrap flag is set, and an invocation of the wrapper returns
\* the single value itself; for a partition whose declared output was a
\* tuple the flag is not set and the wrapper returns what the compiled
\* callable returned, unchanged.
C10_SingletonUnwrap ==
    /\ \A k \in DOMAIN split_gm.wrappers :
         LET w == split_gm.wrappers[k]
             declared == DeclaredOutput(k)
         IN IF ~declared.isTuple
            THEN /\ w.unwrap_singleton_tuple
                 /\ w.graph_output = TupleOf(declared.elems)
                 /\ Len(w.graph_output.elems) = 1
            ELSE /\ ~w.unwrap_singleton_tuple
                 /\ w.graph_output = declared
    /\ pc = "invoked" =>
         /\ DOMAIN invoked = Range(partition_map)
         /\ \A k \in DOMAIN invoked :
              /\ invoked[k] = DeclaredOutput(k)
              /\ DeclaredOutput(k).isTuple =>
                   invoked[k] = CompiledCall(split_gm.wrappers[k])
              /\ ~DeclaredOutput(k).isTuple =>
                   /\ ~invoked[k].isTuple
                   /\ CompiledCall(split_gm.wrappers[k]) = TupleOf(invoked[k].elems)

\* The fused callable was invoked with a partition of either kind.
C10_Witness ==
    /\ pc = "invoked"
    /\ \E k \in DOMAIN invoked : ~DeclaredOutput(k).isTuple
    /\ \E k \in DOMAIN invoked :
         DeclaredOutput(k).isTuple /\ Len(DeclaredOutput(k).elems) = 2

----------------------------------------------------------------------------
(* C11, C12: a failure of the backend compiler *)

\* The partitions whose boundary node the walk has replaced by a wrapper.
CompiledParts == DOMAIN split_gm.wrappers

\* The state compile_fn leaves behind when the backend raised: the failed
\* call is the last one made, nothing was returned, and on the multi-bucket
\* path the failed partition and every later one are still the uncompiled
\* submodules that split_module built.
AbortedByBackend ==
    /\ pc = "raised"
    /\ result = NoResult
    /\ backend_calls # << >>
    /\ split_gm.made =>
         /\ Len(backend_calls) = walk + 1
         /\ backend_calls[Len(backend_calls)].part = split_gm.calls[walk + 1].part
         /\ \A i \in 1..Len(split_gm.calls) :
              i > walk => /\ ~split_gm.calls[i].compiled
                          /\ split_gm.calls[i].part \in DOMAIN split_gm.submods
                          /\ split_gm.calls[i].part \notin CompiledParts

C12_EagerFallback ==
    ~(split_gm.made /\ error = "BackendError" /\ pc = "raised")

----------------------------------------------------------------------------
(* C13: the autograd multithreading flag *)

\* The interpreter walk and the final recompile are under way.
InWalk == pc \in {"walk", "recompiled"}

\* C13: the flag is off during the whole interpreter walk and the final
\* recompile; whenever compile_fn is not inside them, and so after every
\* exit, normal or by an exception of the rank query or of the backend, the
\* flag holds the value it had when the walk was entered.  The recorded
\* value changes only on entering the walk, where it takes the flag's value.
C13_ScopedMultithreadingFlag ==
    /\ []((InWalk => ~multithreading_enabled)
          /\ (~InWalk => multithreading_enabled = prev_multithreading))
    /\ [][/\ (~InWalk /\ InWalk') =>
                prev_multithreading' = multithreading_enabled
          /\ ~(~InWalk /\ InWalk') => prev_multithreading' = prev_multithreading
          /\ (~InWalk /\ ~InWalk') =>
                multithreading_enabled' = multithreading_enabled]_vars

\* The backend raised on the second partition of a walk entered with the
\* flag on, and the flag is on again.
C13_Witness ==
    /\ pc = "raised"
    /\ error = "BackendError"
    /\ split_gm.made
    /\ walk = 1
    /\ prev_multithreading
    /\ multithreading_enabled

----------------------------------------------------------------------------
(* C14: the precondition on the caps *)

\* No compile_fn call has started on the instance and nothing was bucketed
\* or handed to the backend.
NoWorkDone ==
    /\ gm = << >>
    /\ buckets = << >>
    /\ self_buckets = << >>
    /\ partition_map = << >>
    /\ ~split_gm.made
    /\ backend_calls = << >>
    /\ result = NoResult

\* C14: once the constructor has run with first_bucket_cap > bucket_bytes_cap
\* it has raised AssertionError and no work was done; a compile_fn call (a
\* graph was received) only ever runs with first_bucket_cap <= bucket_bytes_cap.
C14_CapPrecondition ==
    /\ (pc # "new" /\ first_bucket_cap > bucket_bytes_cap) =>
          (pc = "raised" /\ error = "AssertionError" /\ NoWorkDone)
    /\ gm # << >> => first_bucket_cap <= bucket_bytes_cap

\* The constructor was given a first cap above the cap and has raised.
C14_Witness ==
    /\ pc = "raised"
    /\ first_bucket_cap > bucket_bytes_cap
    /\ error = "AssertionError"

----------------------------------------------------------------------------
(* C15: no partial success *)

\* The i-th partition-boundary call node targets the wrapper of its
\* partition and the submodule split_module made for it is gone.
TargetsWrapper(i) ==
    LET k == split_gm.calls[i].part
    IN /\ split_gm.calls[i].compiled
       /\ k \in DOMAIN split_gm.wrappers
       /\ k \notin DOMAIN split_gm.submods

----------------------------------------------------------------------------
(* C16: semantic equivalence.  Values are symbolic: the value of a node is  *)
(* the sequence of the operations applied, from the source it starts at.    *)

\* The value of node n when the original graph is run.
RECURSIVE Term(_, _)
Term(g, n) ==
    IF IsCall(g[n]) THEN Append(Term(g, n - 1), g[n].target)
    ELSE << g[n].target >>

\* What invoking the original graph returns.
OrigResult == [ i \in 1..Len(OutputArgs(gm)) |-> Term(gm, OutputArgs(gm)[i]) ]

\* The value of node n inside the compiled callable of its partition
\* (FusedTerm), and the value the parent graph of the fused callable holds
\* for a node m of another partition (ParentRead): the result of that
\* partition's wrapper where the submodule declared a bare output, item j of
\* it where it declared a tuple.
RECURSIVE FusedTerm(_), ParentRead(_)
ParentRead(m) ==
    IF gm[m].op = "placeholder" THEN << gm[m].target >>
    ELSE LET k == partition_map[m]
             declared == DeclaredOutput(k)
             r == invoked[k]
             j == CHOOSE j \in 1..Len(declared.elems) : declared.elems[j] = m
         IN IF declared.isTuple
            THEN IF r.isTuple /\ j <= Len(r.elems)
                 THEN FusedTerm(r.elems[j]) ELSE << "getitem of a non-tuple" >>
            ELSE IF r.isTuple THEN << "tuple for a tensor" >>
                 ELSE FusedTerm(r.elems[1])

FusedTerm(n) ==
    IF ~IsCall(gm[n]) THEN << gm[n].target >>
    ELSE Append(IF (n - 1) \in DOMAIN partition_map
                   /\ partition_map[n - 1] = partition_map[n]
                THEN FusedTerm(n - 1)
                ELSE ParentRead(n - 1),
                gm[n].target)

\* What invoking the fused callable returns.
FusedResult == [ i \in 1..Len(OutputArgs(gm)) |-> ParentRead(OutputArgs(gm)[i]) ]

\* C16: the fused callable, each of its compiled partitions computing the
\* subgraph it was compiled from, returns what the original graph returns:
\* the same values, computed by the same operations in the same order.
C16_SemanticEquivalence ==
    pc = "invoked" => FusedResult = OrigResult

\* A fused callable of three partitions or more was invoked, a value
\* crossing a partition boundary as a tuple item and another as a bare value.
C16_Witness ==
    /\ pc = "invoked"
    /\ Len(split_gm.calls) >= 3
    /\ \E k \in DOMAIN invoked : DeclaredOutput(k).isTuple
    /\ \E k \in DOMAIN invoked : ~DeclaredOutput(k).isTuple
    /\ \E i \in 1..Len(OrigResult) : Len(OrigResult[i]) >= 2

----------------------------------------------------------------------------
(* C17: the signature of the returned callable *)

\* The inputs a module takes and the values it returns, as nodes of gm.
Signature(inputs, outputs) == [inputs |-> inputs, outputs |-> outputs]

\* The signature of the callable the backend returns for the module it was
\* handed: that of the module.
CompiledSignature(call) ==
    IF call.mod = "gm" THEN Signature(Placeholders(gm), OutputArgs(gm))
    ELSE Signature(PartitionInputs(call.part), DeclaredOutput(call.part).elems)

\* The signature of what compile_fn returned.
ResultSignature ==
    IF result.kind = "split_gm"
    THEN Signature(split_gm.placeholders, split_gm.output)
    ELSE CompiledSignature(backend_calls[result.call])

\* C17: what compile_fn returns, on the single-bucket and on the
\* multi-bucket path, takes the placeholders of the original graph, as many
\* and in the same order, and returns the values of its output, as many and
\* in the same order; invoking the fused callable yields one value for each.
C17_SignaturePreserved ==
    /\ pc \in {"returned", "invoked"} =>
         ResultSignature = Signature(Placeholders(gm), OutputArgs(gm))
    /\ pc = "invoked" => Len(FusedResult) = Len(OutputArgs(gm))

\* A graph of two inputs and two or more outputs was split and returned.
C17_Witness ==
    /\ pc = "returned"
    /\ result.kind = "split_gm"
    /\ Len(Placeholders(gm)) = 2
    /\ Len(OutputArgs(gm)) >= 2

----------------------------------------------------------------------------
(* C18: the bucket list kept on the instance *)

\* The scan of the current compile_fn call has completed (line 183 was
\* passed): the bucket diagnostics of this call were emitted.
ScanCompleted == logged # NoLog

\* C18: from the end of a call's scan on, whether the call goes on to
\* return on the single-bucket path, to return the split structure or to
\* raise, self.buckets is the list that scan produced; self.buckets changes
\* only at the end of a scan, a later call's included, and then to that
\* scan's list.
C18_DiagnosticRetention ==
    /\ [](ScanCompleted => self_buckets = buckets)
    /\ [][self_buckets' # self_buckets =>
            /\ pc = "scan" /\ idx = 0
            /\ self_buckets' = buckets
            /\ ScanCompleted']_vars

\* A later call on the instance has finished a scan whose list differs from
\* the one the instance still holds from the call before.
C18_Witness ==
    /\ pc = "scan"
    /\ idx = 0
    /\ Len(self_buckets) >= 2
    /\ Len(buckets) >= 2
    /\ self_buckets # buckets

----------------------------------------------------------------------------
(* C19: the bucket diagnostics without tabulate *)

\* The listing of the buckets: index, size and parameter names.
Listing == Rows(buckets, Len(buckets))

\* C19 as stated: with or without tabulate, the diagnostics emitted at the
\* end of the scan list the buckets (index, size, parameter names).
C19_PlainTextListing ==
    ScanCompleted => logged.rows = Listing

\* C19, amended: with tabulate the table of the buckets is logged; without
\* it only the hint to install tabulate is logged and no bucket is listed.
\* Either way the step raises nothing and leaves compile_fn where it would
\* be with tabulate: the list stashed, about to test for a single bucket.
C19_HintWithoutTabulate ==
    /\ [](ScanCompleted =>
            \/ logged = [kind |-> "table", rows |-> Listing]
            \/ logged = [kind |-> "hint", rows |-> << >>])
    /\ [][(pc = "scan" /\ idx = 0) =>
            /\ pc' = "stashed"
            /\ error' = error
            /\ self_buckets' = buckets
            /\ UNCHANGED <<buckets, gm, backend_calls, result>>]_vars

\* Without tabulate, buckets holding parameters went unlisted and the walk
\* over the partitions has begun.
C19_Witness ==
    /\ pc = "walk"
    /\ logged.kind = "hint"
    /\ Listing # << >>
    /\ Len(buckets) >= 3

----------------------------------------------------------------------------
(* C20: check-before-add *)

\* The closure test of the scan, on the front bucket as the visited node
\* finds it.
FrontAtCap ==
    \/ buckets[1].size >= bucket_bytes_cap
    \/ (Len(buckets) = 1 /\ buckets[1].size >= first_bucket_cap)

\* C20: each step of the scan tests the front bucket's size as it is before
\* the visited node's parameters are counted.  If the test fails the node
\* joins the front bucket with all its synchronizable bytes, whatever size
\* that brings the bucket to; if it succeeds a new front bucket is opened
\* whose first member is the visited node, with or without parameters, and
\* the bucket that was in front is left as it was.  Placeholders and the
\* output change nothing.
C20_CheckBeforeAdd ==
    [][ (pc = "scan" /\ idx >= 1 /\ idx' # idx) =>
          LET node == gm[idx]
              bytes == NodeSyncBytes(node)
          IN IF node.op \in {"placeholder", "output"}
             THEN buckets' = buckets
             ELSE IF FrontAtCap
                  THEN /\ Tail(buckets') = buckets
                       /\ buckets'[1].nodes = << idx >>
                       /\ buckets'[1].size = bytes
                  ELSE /\ Len(buckets') = Len(buckets)
                       /\ Tail(buckets') = Tail(buckets)
                       /\ buckets'[1].nodes = Append(buckets[1].nodes, idx)
                       /\ buckets'[1].size = buckets[1].size + bytes ]_vars

\* A node took its bucket past a positive cap and stayed in it; the next
\* node visited, a function call without parameters, is the first member of
\* the new front bucket.
C20_Witness ==
    /\ pc = "scan"
    /\ Len(buckets) >= 2
    /\ bucket_bytes_cap > 0
    /\ buckets[2].size > bucket_bytes_cap
    /\ Len(buckets[2].nodes) >= 2
    /\ Len(buckets[1].nodes) = 1
    /\ gm[buckets[1].nodes[1]].op = "call_function"
    /\ buckets[1].size = 0

----------------------------------------------------------------------------
(* C21: size accounting *)

\* Bucket b is accounted for: its size is the sum of the bytes of the
\* parameters recorded in it, names and identities are recorded in step, and
\* every recorded parameter requires gradient and is not marked ignored.
Accounted(b) ==
    /\ b.size = SumBytes(b.param_ids, Len(b.param_ids))
    /\ Len(b.params) = Len(b.param_ids)
    /\ \A j \in 1..Len(b.param_ids) :
         /\ ParamById(b.param_ids[j]).requires_grad
         /\ ~ParamById(b.param_ids[j]).ddp_ignored

\* The attributes the nodes of bucket b read.
AttributesRead(b) ==
    { gm[b.nodes[j]].target : j \in { i \in 1..Len(b.nodes) :
                                        gm[b.nodes[i]].op = "get_attr" } }

\* C21: at every point of the scan and afterwards, every bucket of the list
\* being built and of the list kept on the instance is accounted for; a
\* buffer read by a node of a bucket, marked ignored or not, is not recorded
\* in it.
C21_SizeAccounting ==
    /\ \A k \in 1..Len(buckets) :
         /\ Accounted(buckets[k])
         /\ \A j \in 1..Len(buckets[k].param_ids) :
              buckets[k].param_ids[j].name \notin {"buf", "ibuf"}
    /\ \A k \in 1..Len(self_buckets) : Accounted(self_buckets[k])

\* A bucket whose nodes read the parameter w, a plain buffer and an ignored
\* buffer holds the bytes of w only.
C21_Witness ==
    /\ pc = "stashed"
    /\ \E k \in 1..Len(buckets) :
         /\ {"w", "buf", "ibuf"} \subseteq AttributesRead(buckets[k])
         /\ buckets[k].size = 50
         /\ Len(buckets[k].param_ids) = 1

----------------------------------------------------------------------------
(* C22: a parameter referenced by several nodes *)

\* The identities of the parameters of the traced module.
AllParamIds ==
    { ParamId("", a) : a \in Attributes }
        \cup UNION { { ParamId(t, NamedParameters(t)[j].name) :
                         j \in 1..Len(NamedParameters(t)) } : t \in Submodules }

\* The identities of the synchronizable parameters among them.
SyncParamIds ==
    { pid \in AllParamIds : ParamById(pid).requires_grad /\ ~ParamById(pid).ddp_ignored }

\* How many times identity pid is recorded in bucket b.
Occurrences(b, pid) ==
    Cardinality({ j \in 1..Len(b.param_ids) : b.param_ids[j] = pid })

\* Node references the synchronizable parameter pid: it calls the module
\* that owns it or reads it as an attribute.
References(node, pid) ==
    /\ \/ node.op = "call_module" /\ pid.owner = node.target
       \/ node.op = "get_attr" /\ pid.owner = "" /\ pid.name = node.target
    /\ pid \in SyncParamIds

\* How many member nodes of bucket b reference pid.
ReferencingNodes(b, pid) ==
    Cardinality({ j \in 1..Len(b.nodes) : References(gm[b.nodes[j]], pid) })

\* The total of the bucket sizes.
RECURSIVE TotalSize(_, _)
TotalSize(bs, k) == IF k = 0 THEN 0 ELSE bs[k].size + TotalSize(bs, k - 1)

\* C22 as stated: a parameter identity is recorded at most once over all the
\* buckets of the list.
C22_NoDoubleCounting ==
    \A pid \in AllParamIds :
        SetSum({ k \in 1..Len(buckets) : TRUE },
               [ k \in 1..Len(buckets) |-> Occurrences(buckets[k], pid) ]) <= 1

\* C22, amended: a parameter identity is recorded in a bucket once for each
\* member node of the bucket that references it, and the total of the
\* bucket sizes counts its bytes once per referencing node.
C22_CountedPerReference ==
    /\ \A k \in 1..Len(buckets), pid \in AllParamIds :
          Occurrences(buckets[k], pid) = ReferencingNodes(buckets[k], pid)
    /\ ScanDone =>
          TotalSize(buckets, Len(buckets)) =
             SetSum(Eligible(gm), [ n \in 1..Len(gm) |-> NodeSyncBytes(gm[n]) ])

\* The scan is over; one parameter is recorded twice in one bucket and once
\* more in another.
C22_Witness ==
    /\ ScanDone
    /\ \E pid \in AllParamIds : \E k1, k2 \in 1..Len(buckets) :
          /\ k1 # k2
          /\ Occurrences(buckets[k1], pid) >= 2
          /\ Occurrences(buckets[k2], pid) >= 1

----------------------------------------------------------------------------
(* C23: the walk runs on fake tensors *)

\* The calls the walk made to the backend.
SubmodCalls == { i \in 1..Len(backend_calls) : backend_calls[i].mod = "submod" }

\* C23: every example argument the walk hands to the backend is a fake
\* tensor, also where the environment holds a real tensor for the node it
\* comes from, and every value the walk computed for a partition was
\* computed on fake tensors and is fake.
C23_SymbolicArgumentsOnly ==
    /\ \A i \in SubmodCalls :
         \A j \in 1..Len(backend_calls[i].args) : backend_calls[i].args[j] = "fake"
    /\ \A m \in DOMAIN env :
         env[m].by # "example_inputs" => env[m].kind = "fake"

\* The backend was called for a partition that consumes a placeholder bound
\* to a real tensor.
C23_Witness ==
    /\ pc \in {"walk", "returned"}
    /\ \E i \in SubmodCalls :
         \E m \in Range(PartitionInputs(backend_calls[i].part)) :
            /\ m \in DOMAIN env
            /\ env[m] = Value("real", "example_inputs")

----------------------------------------------------------------------------
(* C24: compiled partitions are simulated, not run *)

\* The values partition k hands to the rest of the structure.
OutputsOf(k) == Range(DeclaredOutput(k).elems)

\* C24: every partition the walk compiled has its wrapper installed, and
\* the value the environment holds for each of its outputs came from the
\* fake copy of its submodule; nothing in the environment came from a
\* compiled callable, and until compile_fn has returned and its result is
\* invoked no wrapper has run.
C24_SimulatedNotExecuted ==
    /\ \A k \in DOMAIN split_gm.wrappers :
         \A m \in OutputsOf(k) :
            m \in DOMAIN env /\ env[m].by = "fake_submod"
    /\ \A m \in DOMAIN env : env[m].by \in {"example_inputs", "fake_submod"}
    /\ pc # "invoked" => invoked = << >>

\* The walk has compiled a partition and gone on to call the backend for a
\* later one that consumes a value of the first.
C24_Witness ==
    /\ pc \in {"walk", "returned"}
    /\ invoked = << >>
    /\ \E i \in SubmodCalls : \E k \in DOMAIN split_gm.wrappers :
         /\ k # backend_calls[i].part
         /\ OutputsOf(k) \cap Range(PartitionInputs(backend_calls[i].part)) # {}

----------------------------------------------------------------------------
(* C25: the order of the steps of a multi-bucket call *)

\* The position in split_gm.calls of the boundary node of partition k.
CallIndex(k) == CHOOSE i \in 1..Len(split_gm.calls) : split_gm.calls[i].part = k

\* The boundary nodes stand in forward dependency order: every value
\* partition k consumes is a placeholder or comes from a partition whose
\* boundary node stands before that of k.
DependencyOrdered ==
    \A i \in 1..Len(split_gm.calls) :
       \A m \in Range(PartitionInputs(split_gm.calls[i].part)) :
          \/ gm[m].op = "placeholder"
          \/ CallIndex(partition_map[m]) < i

\* C25: in a multi-bucket call the partition map and the split exist only
\* once the scan is over and its list stashed; the backend is called only
\* after the split, the i-th call being for the i-th boundary node, which
\* stand in forward dependency order, one call for each; the final recompile
\* comes when every boundary node had its call, and the structure is
\* returned only after the recompile, no backend call in between.
C25_Sequencing ==
    /\ [](/\ partition_map # << >> =>
               /\ idx = 0 /\ ScanCompleted /\ self_buckets = buckets
               /\ Len(buckets) # 1
          /\ split_gm.made =>
               /\ partition_map = PartitionMapOf(buckets)
               /\ DependencyOrdered
               /\ Len(backend_calls) <= Len(split_gm.calls)
               /\ \A i \in 1..Len(backend_calls) :
                    /\ backend_calls[i].mod = "submod"
                    /\ backend_calls[i].part = split_gm.calls[i].part
          /\ (SubmodCalls # {} \/ pc \in {"walk", "recompiled"}) => split_gm.made
          /\ (pc = "recompiled" \/ result.kind = "split_gm") =>
               /\ Len(backend_calls) = Len(split_gm.calls)
               /\ \A i, j \in 1..Len(backend_calls) :
                    backend_calls[i].part = backend_calls[j].part => i = j)
    /\ [][/\ split_gm.made' /\ ~split_gm.made => (pc = "stashed" /\ backend_calls' = << >>)
          /\ backend_calls' # backend_calls =>
               (pc \in {"stashed", "walk"} /\ Len(backend_calls') = Len(backend_calls) + 1)
          /\ pc' = "recompiled" /\ pc # "recompiled" =>
               (pc = "walk" /\ walk = Len(split_gm.calls))
          /\ result'.kind = "split_gm" /\ result.kind # "split_gm" =>
               (pc = "recompiled" /\ backend_calls' = backend_calls)]_vars

\* The final recompile of a structure of three or more partitions, one
\* backend call made for each, is done and the structure not yet returned.
C25_Witness ==
    /\ pc = "recompiled"
    /\ Len(backend_calls) >= 3
    /\ result = NoResult

----------------------------------------------------------------------------
(* C26: a target that does not exist *)

\* The call_module and get_attr nodes of gm whose target the module lacks.
DanglingNodes ==
    { n \in 1..Len(gm) : gm[n].op \in {"call_module", "get_attr"}
                         /\ gm[n].target = "gone" }

\* C26: while compile_fn works on a graph with such a node the scan never
\* gets past the last of them, the one it meets first; it is never over, no
\* list is stashed or logged, no partition map or split is made, the backend
\* is not called and nothing is returned.  The AttributeError that ends the
\* scan is raised at such a node.
C26_ResolutionFailureEarly ==
    /\ DanglingNodes # {} =>
         /\ pc \in {"scan", "raised"}
         /\ error # "AssertionError" => idx >= SetMax(DanglingNodes)
         /\ ~ScanCompleted
         /\ self_buckets = << >>
         /\ partition_map = << >>
         /\ ~split_gm.made
         /\ backend_calls = << >>
         /\ result = NoResult
    /\ (error = "AttributeError" /\ ~split_gm.made) =>
         (pc = "raised" /\ idx = SetMax(DanglingNodes \cup {0}) /\ idx >= 1)

\* The scan has built two buckets or more from the nodes after a missing
\* target and has raised at it.
C26_Witness ==
    /\ pc = "raised"
    /\ error = "AttributeError"
    /\ DanglingNodes # {}
    /\ idx \in DanglingNodes
    /\ Len(buckets) >= 2
    /\ \E k \in 1..Len(buckets) : buckets[k].size > 0

----------------------------------------------------------------------------
(* C27: the original graph is not written *)

\* The partitions whose output node was rewritten by compile_submod: the
\* compiled ones, and the one the backend failed on.
Rewritten ==
    { k \in DOMAIN split_gm.wrappers : split_gm.wrappers[k].unwrap_singleton_tuple }
        \cup { k \in DOMAIN split_gm.submods :
                   split_gm.submods[k].output.isTuple /\ ~DeclaredOutput(k).isTuple }

\* The partitions whose boundary node was renamed and whose submodule was
\* replaced by its wrapper.
Renamed == { split_gm.calls[i].part : i \in { j \in 1..Len(split_gm.calls) :
                                                  split_gm.calls[j].compiled } }

----------------------------------------------------------------------------
(* C28: completion of the multi-bucket path *)

\* compile_fn raised on the multi-bucket path although the backend failed
\* on no partition: the read of submod_2 or the rank query did.
AbortedByInstrumentation ==
    /\ split_gm.made
    /\ pc = "raised"
    /\ error \in {"AttributeError", "RuntimeError"}

\* C28: once the graph is split into two or more partitions, compile_fn
\* does not end with an exception unless the backend raised one: neither the
\* read of split_gm.submod_2 nor the rank query makes the call fail.
C28_MultiBucketCompletion ==
    ~(AbortedByInstrumentation /\ Len(buckets) >= 2 /\ first_bucket_cap > 0)

----------------------------------------------------------------------------
(* C29: no empty buckets *)

\* Both caps are positive and the scan, under way or finished, has more
\* than one bucket.
SeveralBucketsPositiveCaps ==
    /\ first_bucket_cap > 0
    /\ bucket_bytes_cap > 0
    /\ Len(buckets) > 1
    /\ (pc = "scan" \/ idx = 0)

\* C29: with positive caps and more than one bucket, every bucket holds a
\* node; every bucket but the front one (index 0) has recorded a parameter
\* and has reached the cap that closed it; so the partition map uses as
\* many distinct indices as there are buckets, the indices 0..N-1.
C29_NoEmptyBuckets ==
    SeveralBucketsPositiveCaps =>
        /\ \A k \in 1..Len(buckets) : Len(buckets[k].nodes) >= 1
        /\ \A k \in 2..Len(buckets) :
             /\ Len(buckets[k].params) >= 1
             /\ buckets[k].size >= ApplicableCap(buckets, k)
        /\ Cardinality(Range(PartitionMapOf(buckets))) = Len(buckets)
        /\ Range(PartitionMapOf(buckets)) = 0..(Len(buckets) - 1)
        /\ partition_map # << >> => Range(partition_map) = 0..(Len(buckets) - 1)

\* Three buckets were partitioned under positive caps, the front bucket
\* below its cap.
C29_Witness ==
    /\ SeveralBucketsPositiveCaps
    /\ Len(buckets) = 3
    /\ buckets[1].size < bucket_bytes_cap
    /\ partition_map # << >>
    /\ split_gm.made

----------------------------------------------------------------------------
(* C30: the registry of overlapped optimizers *)

\* The optim_cls keys an overlapped class is registered for.
KeysOf(registry, overlapped) ==
    { k \in DOMAIN registry : registry[k] = overlapped }

\* An overlapped class is the registered value of two optim_cls keys.
RegisteredTwice ==
    \E overlapped \in Classes :
        Cardinality(KeysOf(registered_overlapped_optims, overlapped)) >= 2

\* C30: no overlapped class is ever the registered value of two different
\* optim_cls keys: a registration of a class that is already a registered
\* value is refused; and no step replaces the value of an existing
\* optim_cls entry.
C30_RegistryRejectsReRegistration ==
    /\ [](~RegisteredTwice)
    /\ [][\A k \in DOMAIN registered_overlapped_optims :
               /\ k \in DOMAIN registered_overlapped_optims'
               /\ registered_overlapped_optims'[k] = registered_overlapped_optims[k]]_vars

----------------------------------------------------------------------------

Next ==
    \/ Construct
    \/ CompileFn
    \/ ScanNode
    \/ Stash
    \/ SingleBucket
    \/ Partition
    \/ RunNode
    \/ FinalRecompile
    \/ ReturnSplit
    \/ InvokeFused

Spec == Init /\ [][Next]_vars

NextEnv ==
    \/ Construct
    \/ CompileFnEnv
    \/ ScanNode
    \/ StashEnv
    \/ SingleBucket
    \/ Partition
    \/ RunNode
    \/ FinalRecompile
    \/ ReturnSplit
    \/ InvokeFused
    \/ Recompile

SpecEnv == InitEnv /\ [][NextEnv]_vars

NextTargets ==
    \/ Construct
    \/ CompileFnTargets
    \/ ScanNode
    \/ Stash
    \/ SingleBucket
    \/ Partition
    \/ RunNode
    \/ FinalRecompile
    \/ ReturnSplit
    \/ InvokeFused

SpecTargets == Init /\ [][NextTargets]_vars

====
